---- MODULE Spec2Model ----
(***************************************************************************)
(* Document store of the wiki (src/app/storage.py) and the web handlers    *)
(* that call it (src/app/app.py), as a state machine over the data         *)
(* directory:                                                              *)
(*   docs/<slug>/doc.md   canonical document                               *)
(*   docs/<slug>.md       legacy document                                  *)
(*   trash/<name>         soft-deleted unit                                *)
(* Names are sequences of string tokens, so that the string operations of  *)
(* the code (split, replace, slugify) are computed and not assumed.        *)
(***************************************************************************)
EXTENDS Integers, Sequences, FiniteSets, TLC

VARIABLES
    docs,     \* [DocNames -> entry]: the entry docs/<slug> (a directory, a plain file or absent)
    legacy,   \* [DocNames -> file]:  the file docs/<slug>.md (or absent)
    trash,    \* function from the names present in trash/ to their entries
    now,      \* the wall clock, [day, sec]
    last,     \* the last request served: the operation, its inputs and what it answered
    nops,     \* requests served and clock steps taken so far
    inflight  \* the save_doc calls in progress, by thread: where each stands and
              \* the serialized document it built

vars == <<docs, legacy, trash, now, last, nops, inflight>>

----------------------------------------------------------------------------
\* Bounds of the model

MaxOps == 3
StartDay == 8
RecentAge == 6

\* timedelta.days counts whole days of 86400 seconds
SecondsPerDay == 86400

\* clean_trash(older_than_days = 7), and admin_clean_trash calls clean_trash(7)
DefaultRetentionDays == 7

----------------------------------------------------------------------------
\* Values

None == << >>
Some(v) == <<v>>
IsNone(x) == Len(x) = 0

Absent == [kind |-> "absent"]

EmptyMap == [x \in {} |-> Absent]

Put(f, k, v) == [x \in (DOMAIN f) \cup {k} |-> IF x = k THEN v ELSE f[x]]

Drop(f, k) == [x \in (DOMAIN f) \ {k} |-> f[x]]

Get(f, k, dflt) == IF k \in DOMAIN f THEN f[k] ELSE dflt

\* The slugs the requests address, and the titles typed in the forms
SlugA == <<"a">>
SlugAB == <<"a", "_", "b">>
Slugs == {SlugA, SlugAB}
DocNames == Slugs

\* The forms posted to new_doc and edit_doc: title, body, access_level, the
\* icon file (None when the form carries none) and the user of the session
Form(title, body, access_level, icon, user) ==
    [title |-> title, body |-> body, access_level |-> access_level, icon |-> icon,
     user |-> user]
Forms == {Form(<<"A">>, "# intro", "d1", None, "ana"),
          Form(<<"a">>, "# guide", "d2", None, "bob"),
          Form(<<"A">>, "# guide", "d3", Some("logo-3f9a1c.png"), "bob")}
SweepDays == {1, DefaultRetentionDays}

\* The file name upload_file makes of an uploaded image, and the file names
\* asked of delete_file
UploadName == "img-7c1e02.png"
FileNames == {UploadName, "doc.md"}

\* The titles given to save_doc when it is called without a slug
WriteTitles == {<<"A">>, <<" ", "A", "!">>}

\* strftime: one token for the date, one for the time of day
DateTokens == <<"2025-11-01", "2025-11-02", "2025-11-03", "2025-11-04",
                "2025-11-05", "2025-11-06", "2025-11-07", "2025-11-08",
                "2025-11-09", "2025-11-10", "2025-11-11", "2025-11-12",
                "2025-11-13", "2025-11-14", "2025-11-15", "2025-11-16",
                "2025-11-17", "2025-11-18", "2025-11-19", "2025-11-20">>
TimeTokens == <<"00-00-00", "00-00-01", "00-00-02", "00-00-03", "00-00-04",
                "00-00-05", "00-00-06", "00-00-07", "00-00-08", "00-00-09">>

\* datetime.now(BRT).strftime("%Y-%m-%d %H:%M:%S %Z")
FormatBRT(t) == <<DateTokens[t.day + 1], " ", TimeTokens[t.sec + 1], " ", "UTC-03:00">>

\* datetime.utcnow().strftime("%Y-%m-%d_%H-%M-%S")
FormatUTC(t) == <<DateTokens[t.day + 1], "_", TimeTokens[t.sec + 1]>>

Seconds(t) == t.day * SecondsPerDay + t.sec

\* (now - mtime).days
AgeDays(t, mtime) == (Seconds(t) - Seconds(mtime)) \div SecondsPerDay

----------------------------------------------------------------------------
\* Path helpers: what exists under docs/

IsDir(e) == e.kind = "dir"

\* os.path.exists(docs/<slug>)
DirPathExists(d, slug) == d[slug].kind # "absent"

\* os.path.exists(docs/<slug>/doc.md)
NewPathExists(d, slug) == IsDir(d[slug]) /\ d[slug].doc.kind = "file"

\* os.path.exists(docs/<slug>.md)
LegacyPathExists(l, slug) == l[slug].kind = "file"

\* A file: ok is whether frontmatter.load parses it
File(ok, meta, body, mtime) ==
    [kind |-> "file", ok |-> ok, meta |-> meta, body |-> body, mtime |-> mtime]

\* A directory: its doc.md, its asset files, its sub-directories, its mtime
Dir(doc, assets, sub, mtime) ==
    [kind |-> "dir", doc |-> doc, assets |-> assets, sub |-> sub, mtime |-> mtime]

\* frontmatter.Post: metadata and content
Post(meta, content) == [meta |-> meta, content |-> content]

\* frontmatter.load that drops the text after the metadata block
LoadMetaOnly(f) == Post(f.meta, "")

\* frontmatter.load of a file that parses
Load(f) == Post(f.meta, f.body)

----------------------------------------------------------------------------
\* String operations, on tokens

IsAlnum(c) == c \in {"a", "b", "A", "B"}

Lower(c) == IF c = "A" THEN "a" ELSE IF c = "B" THEN "b" ELSE c

\* Every token that is not a letter or a digit becomes a hyphen
RECURSIVE Hyphenate(_)
Hyphenate(s) ==
    IF s = << >> THEN << >>
    ELSE <<(IF IsAlnum(Head(s)) THEN Lower(Head(s)) ELSE "-")>> \o Hyphenate(Tail(s))

\* Runs of hyphens become one hyphen
RECURSIVE Squeeze(_)
Squeeze(s) ==
    IF Len(s) < 2 THEN s
    ELSE IF Head(s) = "-" /\ Head(Tail(s)) = "-" THEN Squeeze(Tail(s))
    ELSE <<Head(s)>> \o Squeeze(Tail(s))

RECURSIVE StripHyphens(_)
StripHyphens(s) ==
    IF s = << >> THEN s
    ELSE IF Head(s) = "-" THEN StripHyphens(Tail(s))
    ELSE IF s[Len(s)] = "-" THEN StripHyphens(SubSeq(s, 1, Len(s) - 1))
    ELSE s

\* slugify(text) of python-slugify, with its defaults
Slugify(text) == StripHyphens(Squeeze(Hyphenate(text)))

\* name.split("_")[0]
RECURSIVE SplitFirst(_)
SplitFirst(s) ==
    IF s = << >> \/ Head(s) = "_" THEN << >>
    ELSE <<Head(s)>> \o SplitFirst(Tail(s))

\* s.replace(".md", "")
RemoveMd(s) == SelectSeq(s, LAMBDA c : c # ".md")

\* restore_doc: base_name = name.split("_")[0].replace(".md", "")
BaseName(name) == RemoveMd(SplitFirst(name))

\* delete_doc: f"{slug}_{timestamp}" and f"{slug}_{timestamp}.md"
TrashName(slug, t) == slug \o <<"_">> \o FormatUTC(t)
TrashNameMd(slug, t) == TrashName(slug, t) \o <<".md">>

\* save_doc: body.strip()[:300]; the bodies of the model are shorter than the
\* slice and carry no outer blanks
AutoDescription(body) == body

----------------------------------------------------------------------------
\* storage.py: read_doc

\* read_doc without the copy of the legacy file to docs/<slug>/doc.md
ReadDocNoCopy(d, l, t, slug) ==
    IF NewPathExists(d, slug) /\ d[slug].doc.ok
    THEN [ret |-> Some(Load(d[slug].doc)), docs |-> d]
    ELSE IF LegacyPathExists(l, slug)
    THEN [ret |-> IF l[slug].ok THEN Some(Load(l[slug])) ELSE None, docs |-> d]
    ELSE [ret |-> None, docs |-> d]

\* What read_doc returns and the docs/ it leaves: ret is None or Some(post)
ReadDoc(d, l, t, slug) ==
    IF NewPathExists(d, slug) /\ d[slug].doc.ok
    THEN [ret |-> Some(Load(d[slug].doc)), docs |-> d]
    ELSE \* no canonical file, or frontmatter.load raised and the error was printed
    IF LegacyPathExists(l, slug)
    THEN IF d[slug].kind = "file"
         THEN \* os.makedirs raises FileExistsError: the legacy file is read
              [ret |-> IF l[slug].ok THEN Some(Load(l[slug])) ELSE None, docs |-> d]
         ELSE LET made == IF d[slug].kind = "absent"
                          THEN Dir(Absent, {}, EmptyMap, t)
                          ELSE d[slug]
                  \* shutil.copy2 keeps the times of the source file
                  copied == [made EXCEPT !.doc = l[slug],
                                         !.mtime = IF made.doc.kind = "absent" THEN t ELSE @]
              IN  [ret |-> IF l[slug].ok THEN Some(Load(l[slug])) ELSE None,
                   docs |-> [d EXCEPT ![slug] = copied]]
    ELSE [ret |-> None, docs |-> d]

----------------------------------------------------------------------------
\* storage.py: upload_file, with the slug given and no title

\* raised: os.makedirs found a plain file at docs/<slug>; url is what it returns,
\* /docs/<slug>/<filename>, which the file name stands for
UploadFile(d, t, slug, filename) ==
    IF d[slug].kind = "file"
    THEN [raised |-> TRUE, url |-> None, docs |-> d]
    ELSE LET made == IF d[slug].kind = "absent"
                     THEN Dir(Absent, {}, EmptyMap, t)
                     ELSE d[slug]
             saved == [made EXCEPT !.assets = @ \cup {filename},
                                   !.mtime = IF filename \in made.assets THEN @ ELSE t]
         IN  [raised |-> FALSE, url |-> Some(filename), docs |-> [d EXCEPT ![slug] = saved]]

\* storage.py: delete_file: os.remove of docs/<slug>/<filename> if it exists
DeleteFile(d, t, slug, filename) ==
    IF ~IsDir(d[slug]) THEN [ret |-> FALSE, docs |-> d]
    ELSE IF filename = "doc.md"
    THEN IF d[slug].doc.kind = "file"
         THEN [ret |-> TRUE,
               docs |-> [d EXCEPT ![slug] = [@ EXCEPT !.doc = Absent, !.mtime = t]]]
         ELSE [ret |-> FALSE, docs |-> d]
    ELSE IF filename \in d[slug].assets
    THEN [ret |-> TRUE,
          docs |-> [d EXCEPT ![slug] = [@ EXCEPT !.assets = @ \ {filename}, !.mtime = t]]]
    ELSE [ret |-> FALSE, docs |-> d]

----------------------------------------------------------------------------
\* storage.py: save_doc

Documento == <<"d", "o", "c", "u", "m", "e", "n", "t", "o">>

\* save_doc: created_at and created_by are set only when the post lacks them
StampCreatedAlways(meta, t, author_name) ==
    Put(Put(meta, "created_at", FormatBRT(t)), "created_by", author_name)

StampCreated(meta, t, author_name) ==
    LET m == IF "created_at" \notin DOMAIN meta THEN Put(meta, "created_at", FormatBRT(t))
             ELSE meta
    IN  IF "created_by" \notin DOMAIN m THEN Put(m, "created_by", author_name) ELSE m

\* save_doc: post.content = body, whatever the loaded post held
ContentKept(source, body) == source.body

Content(source, body) == body

\* save_doc that builds the metadata anew from its parameters, the loaded post
\* left aside
SaveMetaReplace(meta, t, slug, title, body, author_name, icon_url, description, tags, category, cover_url, access_level) ==
    LET m1 == [title |-> IF title # << >> THEN title ELSE slug,
               access_level |-> IF IsNone(access_level) THEN "d1" ELSE access_level[1],
               last_edited_at |-> FormatBRT(t), last_edited_by |-> author_name,
               created_at |-> FormatBRT(t), created_by |-> author_name,
               description |-> IF IsNone(description) THEN AutoDescription(body)
                               ELSE description[1]]
        m2 == IF ~IsNone(icon_url) THEN Put(m1, "icon_url", icon_url[1]) ELSE m1
        m3 == IF ~IsNone(cover_url) THEN Put(m2, "cover_url", cover_url[1]) ELSE m2
        m4 == IF ~IsNone(category) THEN Put(m3, "category", category[1]) ELSE m3
    IN  IF ~IsNone(tags) THEN Put(m4, "tags", tags[1]) ELSE m4

\* The metadata save_doc leaves in the post it loaded
SaveMeta(meta, t, slug, title, body, author_name, icon_url, description, tags, category, cover_url, access_level) ==
    LET m1 == IF ~IsNone(access_level) THEN Put(meta, "access_level", access_level[1])
              ELSE IF "access_level" \notin DOMAIN meta THEN Put(meta, "access_level", "d1")
              ELSE meta
        m2 == Put(m1, "title", IF title # << >> THEN title ELSE Get(m1, "title", slug))
        m3 == Put(m2, "last_edited_at", FormatBRT(t))
        m4 == Put(m3, "last_edited_by", author_name)
        m6 == StampCreated(m4, t, author_name)
        m7 == IF ~IsNone(description) THEN Put(m6, "description", description[1])
              ELSE IF Get(m6, "description", "") = ""
                   THEN Put(m6, "description", AutoDescription(body))
              ELSE m6
        m8 == IF ~IsNone(icon_url) THEN Put(m7, "icon_url", icon_url[1]) ELSE m7
        m9 == IF ~IsNone(cover_url) THEN Put(m8, "cover_url", cover_url[1]) ELSE m8
        m10 == IF ~IsNone(category) THEN Put(m9, "category", category[1]) ELSE m9
        m11 == IF ~IsNone(tags) THEN Put(m10, "tags", tags[1]) ELSE m10
    IN  m11

\* What save_doc does to docs/: raised is an exception leaving save_doc
SaveDoc(d, l, t, title, body, author_name, slug0, icon_url, description, tags, category, cover_url, access_level) ==
    LET slug == IF slug0 = << >>
                THEN Slugify(IF title = << >> THEN Documento ELSE title)
                ELSE slug0
    IN
    IF d[slug].kind = "file"
    THEN \* os.makedirs(doc_dir, exist_ok=True) raises FileExistsError
         [raised |-> TRUE, slug |-> slug, docs |-> d]
    ELSE
    LET made == IF d[slug].kind = "absent" THEN Dir(Absent, {}, EmptyMap, t) ELSE d[slug]
        d1 == [d EXCEPT ![slug] = made]
        source == IF made.doc.kind = "file" THEN made.doc
                  ELSE IF LegacyPathExists(l, slug) THEN l[slug]
                  ELSE File(TRUE, EmptyMap, "", t)
    IN
    IF ~source.ok
    THEN \* frontmatter.load raises on the stored file
         [raised |-> TRUE, slug |-> slug, docs |-> d1]
    ELSE
    LET meta == SaveMeta(source.meta, t, slug, title, body, author_name, icon_url,
                         description, tags, category, cover_url, access_level)
        written == [made EXCEPT !.doc = File(TRUE, meta, Content(source, body), t),
                                !.mtime = IF made.doc.kind = "absent" THEN t ELSE @]
    IN  [raised |-> FALSE, slug |-> slug, docs |-> [d EXCEPT ![slug] = written]]

----------------------------------------------------------------------------
\* storage.py: delete_doc

\* ret is what delete_doc returns; raised is shutil.Error leaving it; name is
\* the trash name it computed (None when there was nothing to move)
DeleteDoc(d, l, tr, t, slug) ==
    IF IsDir(d[slug])
    THEN LET name == TrashName(slug, t) IN
         IF name \notin DOMAIN tr
         THEN \* os.rename: the directory keeps its times
              [ret |-> TRUE, raised |-> FALSE, name |-> Some(name),
               docs |-> [d EXCEPT ![slug] = Absent], legacy |-> l,
               trash |-> Put(tr, name, d[slug])]
         ELSE IF IsDir(tr[name]) /\ slug \notin DOMAIN tr[name].sub
         THEN \* shutil.move into the directory that is already there
              [ret |-> TRUE, raised |-> FALSE, name |-> Some(name),
               docs |-> [d EXCEPT ![slug] = Absent], legacy |-> l,
               trash |-> [tr EXCEPT ![name] = [@ EXCEPT !.sub = Put(@, slug, d[slug]),
                                                        !.mtime = t]]]
         ELSE \* "Destination path already exists"
              [ret |-> FALSE, raised |-> TRUE, name |-> Some(name),
               docs |-> d, legacy |-> l, trash |-> tr]
    ELSE IF LegacyPathExists(l, slug)
    THEN LET name == TrashNameMd(slug, t) IN
         \* os.rename replaces a file that is already there
         [ret |-> TRUE, raised |-> FALSE, name |-> Some(name),
          docs |-> d, legacy |-> [l EXCEPT ![slug] = Absent],
          trash |-> Put(tr, name, l[slug])]
    ELSE [ret |-> FALSE, raised |-> FALSE, name |-> None,
          docs |-> d, legacy |-> l, trash |-> tr]

----------------------------------------------------------------------------
\* storage.py: clean_trash

\* clean_trash with the age test age_days > older_than_days
ExpiredStrict(tr, t, older_than_days) ==
    {name \in DOMAIN tr : AgeDays(t, tr[name].mtime) > older_than_days}

\* The names clean_trash tries to remove: age_days >= older_than_days
Expired(tr, t, older_than_days) ==
    {name \in DOMAIN tr : AgeDays(t, tr[name].mtime) >= older_than_days}

\* clean_trash without the try around the removal: the first failure ends it
CleanTrashAbort(tr, t, older_than_days, failing) ==
    LET removed == IF Expired(tr, t, older_than_days) \cap failing # {} THEN {}
                   ELSE Expired(tr, t, older_than_days)
    IN  [removed |-> removed,
         trash |-> [name \in (DOMAIN tr) \ removed |-> tr[name]]]

\* failing: the entries the file system refuses to remove (shutil.rmtree or
\* os.remove raises, the failure is printed and the entry stays)
CleanTrash(tr, t, older_than_days, failing) ==
    LET removed == Expired(tr, t, older_than_days) \ failing
    IN  [removed |-> removed,
         trash |-> [name \in (DOMAIN tr) \ removed |-> tr[name]]]

----------------------------------------------------------------------------
\* app.py: restore_doc

\* The conflict check of restore_doc
RestoreConflictNoLegacy(d, l, base_name) ==
    \/ NewPathExists(d, base_name)
    \/ DirPathExists(d, base_name)

RestoreConflict(d, l, base_name) ==
    \/ NewPathExists(d, base_name)
    \/ LegacyPathExists(l, base_name)
    \/ DirPathExists(d, base_name)

\* outcome: what the handler flashed
Restore(d, l, tr, name) ==
    IF name \notin DOMAIN tr
    THEN [outcome |-> "not_found", base |-> None, docs |-> d, trash |-> tr]
    ELSE LET base_name == BaseName(name) IN
         IF RestoreConflict(d, l, base_name)
         THEN [outcome |-> "conflict", base |-> Some(base_name), docs |-> d, trash |-> tr]
         ELSE \* shutil.move(src, dest_dir): dest_dir does not exist, os.rename
              [outcome |-> "restored", base |-> Some(base_name),
               docs |-> [d EXCEPT ![base_name] = tr[name]],
               trash |-> Drop(tr, name)]

----------------------------------------------------------------------------
\* app.py: purge_doc

\* A name of the form that leads out of trash/: os.path.join(TRASH_DIR, name)
\* is then the path docs/<slug>
TraversalName(slug) == <<"..", "/", "docs", "/">> \o slug

\* What os.path.join(TRASH_DIR, name) names: an entry of trash/, a directory
\* or file docs/<slug>, or nothing that exists
PurgeTarget(d, tr, name) ==
    IF name \in DOMAIN tr THEN [at |-> "trash"]
    ELSE IF \E slug \in DocNames : name = TraversalName(slug) /\ DirPathExists(d, slug)
    THEN [at |-> "docs", slug |-> CHOOSE slug \in DocNames : name = TraversalName(slug)]
    ELSE [at |-> "none"]

\* outcome: what the handler flashed; refused: shutil.rmtree or os.remove raises
Purge(d, tr, name, refused) ==
    LET target == PurgeTarget(d, tr, name) IN
    IF target.at = "none"
    THEN [outcome |-> "not_found", docs |-> d, trash |-> tr]
    ELSE IF refused
    THEN [outcome |-> "error", docs |-> d, trash |-> tr]
    ELSE IF target.at = "trash"
    THEN [outcome |-> "purged", docs |-> d, trash |-> Drop(tr, name)]
    ELSE [outcome |-> "purged", docs |-> [d EXCEPT ![target.slug] = Absent], trash |-> tr]

----------------------------------------------------------------------------
\* The store a deployment starts from: the documents of slug a written StartDay
\* days ago, those of slug a_b RecentAge days ago

LayoutsA == {"absent", "canonical", "legacy", "broken_canonical_and_legacy",
             "broken_canonical", "broken_legacy"}
LayoutsAB == {"absent", "canonical"}

CanonicalMeta(slug, t) ==
    [title |-> slug, access_level |-> "d1", description |-> "about", tags |-> <<"api">>,
     created_at |-> FormatBRT(t), created_by |-> "ana",
     last_edited_at |-> FormatBRT(t), last_edited_by |-> "ana"]

LegacyMeta(slug, t) ==
    [title |-> slug, description |-> "old", tags |-> <<"Guide">>,
     created_at |-> FormatBRT(t), created_by |-> "ana"]

InitDocsEntry(slug, layout, t) ==
    IF layout = "canonical"
    THEN Dir(File(TRUE, CanonicalMeta(slug, t), "# canonical", t), {}, EmptyMap, t)
    ELSE IF layout \in {"broken_canonical_and_legacy", "broken_canonical"}
    THEN Dir(File(FALSE, EmptyMap, "---", t), {}, EmptyMap, t)
    ELSE Absent

InitLegacyEntry(slug, layout, t) ==
    IF layout \in {"legacy", "broken_canonical_and_legacy"}
    THEN File(TRUE, LegacyMeta(slug, t), "# legacy", t)
    ELSE IF layout = "broken_legacy"
    THEN File(FALSE, EmptyMap, "---", t)
    ELSE Absent

Init ==
    \E la \in LayoutsA, lab \in LayoutsAB :
        LET t0 == [s \in DocNames |->
                      [day |-> IF s = SlugA THEN 0 ELSE StartDay - RecentAge, sec |-> 0]]
            layout == [s \in DocNames |-> IF s = SlugA THEN la ELSE lab]
        IN  /\ docs = [s \in DocNames |-> InitDocsEntry(s, layout[s], t0[s])]
            /\ legacy = [s \in DocNames |-> InitLegacyEntry(s, layout[s], t0[s])]
            /\ trash = EmptyMap
            /\ now = [day |-> StartDay, sec |-> 0]
            /\ last = [op |-> "init"]
            /\ nops = 0
            /\ inflight = EmptyMap

----------------------------------------------------------------------------
\* The requests

Step == nops < MaxOps /\ nops' = nops + 1 /\ UNCHANGED inflight

\* app.py: the optional upload of the form's icon, whose failure is flashed
IconUpload(d, t, slug, icon) ==
    IF IsNone(icon) THEN [raised |-> FALSE, url |-> None, docs |-> d]
    ELSE UploadFile(d, t, slug, icon[1])

\* app.py: new_doc (POST), by user with the form's title, body, access_level, icon
NewDoc(title, body, access_level, icon, user) ==
    LET slug == Slugify(title)
        up == IconUpload(docs, now, slug, icon)
        saved == SaveDoc(up.docs, legacy, now, title, body, user, slug, None, Some(""), Some(<< >>), None, None, Some(access_level))
    IN  /\ Step
        /\ IF NewPathExists(docs, slug)
           THEN /\ UNCHANGED docs
                /\ last' = [op |-> "new_doc", slug |-> slug, title |-> title, body |-> body,
                            tier |-> access_level, user |-> user, outcome |-> "conflict"]
           ELSE /\ docs' = saved.docs
                /\ last' = [op |-> "new_doc", slug |-> slug, title |-> title, body |-> body,
                            tier |-> access_level, user |-> user,
                            outcome |-> IF saved.raised THEN "error" ELSE "created"]
        /\ UNCHANGED <<legacy, trash, now>>

\* app.py: edit_doc (POST) on /docs/<slug>/edit
EditDoc(slug, title, body, access_level, icon, user) ==
    LET up == IconUpload(docs, now, slug, icon)
        saved == SaveDoc(up.docs, legacy, now, title, body, user, slug, up.url, Some(""), Some(<< >>), Some(access_level), None, None)
    IN  /\ Step
        /\ docs' = saved.docs
        /\ last' = [op |-> "edit_doc", slug |-> slug, title |-> title, body |-> body,
                    tier |-> access_level, user |-> user,
                    outcome |-> IF saved.raised THEN "error" ELSE "updated"]
        /\ UNCHANGED <<legacy, trash, now>>

\* storage.py: save_doc(title, body, author_name, author_email), every other
\* parameter at its default: the slug is derived from the title
Write(title, body, user) ==
    LET saved == SaveDoc(docs, legacy, now, title, body, user, None, None, None, None, None, None, None)
    IN  /\ Step
        /\ docs' = saved.docs
        /\ last' = [op |-> "write", slug |-> saved.slug, title |-> title, body |-> body,
                    user |-> user, raised |-> saved.raised]
        /\ UNCHANGED <<legacy, trash, now>>

\* app.py: view_doc, which is read_doc(slug)
ViewDoc(slug) ==
    LET r == ReadDoc(docs, legacy, now, slug)
    IN  /\ Step
        /\ docs' = r.docs
        /\ last' = [op |-> "read", slug |-> slug, ret |-> r.ret]
        /\ UNCHANGED <<legacy, trash, now>>

\* app.py: remove_doc, which is delete_doc(slug)
RemoveDoc(slug) ==
    LET r == DeleteDoc(docs, legacy, trash, now, slug)
    IN  /\ Step
        /\ docs' = r.docs
        /\ legacy' = r.legacy
        /\ trash' = r.trash
        /\ last' = [op |-> "delete", slug |-> slug, ret |-> r.ret, raised |-> r.raised,
                    name |-> r.name, at |-> now,
                    canonical |-> NewPathExists(docs, slug),
                    before |-> ReadDoc(docs, legacy, now, slug).ret]
        /\ UNCHANGED now

\* app.py: restore_doc (POST) with the form's name
RestoreDoc(name) ==
    LET r == Restore(docs, legacy, trash, name)
    IN  /\ Step
        /\ docs' = r.docs
        /\ trash' = r.trash
        /\ last' = [op |-> "restore", name |-> name, base |-> r.base, outcome |-> r.outcome]
        /\ UNCHANGED <<legacy, now>>

\* clean_trash that also removes docs/<base name> of every entry it removes
SweepDocsToo(older_than_days, failing) ==
    LET r == CleanTrash(trash, now, older_than_days, failing)
        gone == {BaseName(name) : name \in r.removed}
    IN  /\ Step
        /\ trash' = r.trash
        /\ docs' = [s \in DocNames |-> IF s \in gone THEN Absent ELSE docs[s]]
        /\ last' = [op |-> "sweep", days |-> older_than_days, removed |-> r.removed,
                    failed |-> failing, before |-> trash]
        /\ UNCHANGED <<legacy, now>>

\* app.py: upload (POST) with the form's slug and no title: the directory
\* docs/<slugify(slug)> is made, then upload_file saves into docs/<slug>
\* (the two are one directory for the slug of the model's uploads)
Upload(slug, filename) ==
    LET r == UploadFile(docs, now, slug, filename)
    IN  /\ Step
        /\ Slugify(slug) = slug
        /\ docs' = r.docs
        /\ last' = [op |-> "upload", slug |-> slug, raised |-> r.raised, url |-> r.url]
        /\ UNCHANGED <<legacy, trash, now>>

\* storage.py: delete_file(slug, filename)
RemoveFile(slug, filename) ==
    LET r == DeleteFile(docs, now, slug, filename)
    IN  /\ Step
        /\ docs' = r.docs
        /\ last' = [op |-> "delete_file", slug |-> slug, filename |-> filename, ret |-> r.ret]
        /\ UNCHANGED <<legacy, trash, now>>

\* app.py: purge_doc (POST) with the form's name
PurgeDoc(name, refused) ==
    LET r == Purge(docs, trash, name, refused)
    IN  /\ Step
        /\ docs' = r.docs
        /\ trash' = r.trash
        /\ last' = [op |-> "purge", name |-> name, outcome |-> r.outcome]
        /\ UNCHANGED <<legacy, now>>

\* storage.py: clean_trash(older_than_days), the removal of failing refused
Sweep(older_than_days, failing) ==
    LET r == CleanTrash(trash, now, older_than_days, failing)
    IN  /\ Step
        /\ trash' = r.trash
        /\ last' = [op |-> "sweep", days |-> older_than_days, removed |-> r.removed,
                    failed |-> failing, before |-> trash]
        /\ UNCHANGED <<docs, legacy, now>>

\* The clock moves on by a second
TickSecond ==
    /\ Step
    /\ now' = [now EXCEPT !.sec = @ + 1]
    /\ last' = [op |-> "tick"]
    /\ UNCHANGED <<docs, legacy, trash>>

\* The clock moves on by a day
TickDay ==
    /\ Step
    /\ now' = [now EXCEPT !.day = @ + 1]
    /\ last' = [op |-> "tick"]
    /\ UNCHANGED <<docs, legacy, trash>>

\* A name the trash never holds, for a restore request that finds nothing
MissingName == <<"b", "_", "2025-01-01", "_", "00-00-00">>

Next ==
    \/ \E f \in Forms : NewDoc(f.title, f.body, f.access_level, f.icon, f.user)
    \/ \E slug \in Slugs, f \in Forms :
           EditDoc(slug, f.title, f.body, f.access_level, f.icon, f.user)
    \/ \E title \in WriteTitles, f \in Forms : Write(title, f.body, f.user)
    \/ \E slug \in Slugs : ViewDoc(slug)
    \/ \E slug \in Slugs : RemoveDoc(slug)
    \/ \E name \in (DOMAIN trash) \cup {MissingName} : RestoreDoc(name)
    \/ Upload(SlugA, UploadName)
    \/ \E filename \in FileNames : RemoveFile(SlugA, filename)
    \/ \E name \in (DOMAIN trash) \cup {MissingName, TraversalName(SlugA)} :
           \E refused \in BOOLEAN : PurgeDoc(name, refused)
    \/ \E days \in SweepDays :
           \E failing \in SUBSET Expired(trash, now, days) : Sweep(days, failing)
    \/ TickSecond
    \/ TickDay

Spec == Init /\ [][Next]_vars

----------------------------------------------------------------------------
\* Requests served at the same time: the threads of the server, each running
\* save_doc for an edit_doc request, and reads between their steps

Threads == {"t1", "t2"}

\* with open(md_path_new, "w"): the file is there and empty
EmptyFile(t) == File(TRUE, EmptyMap, "", t)

\* The body a file shows when a shorter document was written over a longer
\* one: the body written, then the last n lines of the text overwritten
Tails == <<"# body, 1 stale line", "# body, 2 stale lines">>

\* The serialized documents of the model differ in length by their lines:
\* one per metadata key, and the body
BodyLines(body) ==
    IF body = "" THEN 0
    ELSE IF \E n \in 1..Len(Tails) : body = Tails[n]
    THEN 1 + (CHOOSE n \in 1..Len(Tails) : body = Tails[n])
    ELSE 1

Size(f) == Cardinality(DOMAIN f.meta) + BodyLines(f.body)

\* f.write(content) and the close: content goes over the start of what the
\* file holds by then
Overlay(cur, payload, t) ==
    IF Size(cur) <= Size(payload) THEN [payload EXCEPT !.mtime = t]
    ELSE File(TRUE, payload.meta, Tails[Size(cur) - Size(payload)], t)

InitThreads ==
    \E la \in {"absent", "canonical"} :
        LET t0 == [day |-> 0, sec |-> 0]
        IN  /\ docs = [s \in DocNames |->
                          IF s = SlugA THEN InitDocsEntry(s, la, t0) ELSE Absent]
            /\ legacy = [s \in DocNames |-> Absent]
            /\ trash = EmptyMap
            /\ now = [day |-> StartDay, sec |-> 0]
            /\ last = [op |-> "init"]
            /\ nops = 0
            /\ inflight = EmptyMap

\* edit_doc up to the open of doc.md: the icon upload, then save_doc makes the
\* directory, loads the stored post, merges the form into it and serializes it
SaveLoad(th, slug, f) ==
    LET up == IconUpload(docs, now, slug, f.icon)
        saved == SaveDoc(up.docs, legacy, now, f.title, f.body, f.user, slug, up.url, Some(""), Some(<< >>), Some(f.access_level), None, None)
        made == IF up.docs[slug].kind = "absent" THEN Dir(Absent, {}, EmptyMap, now)
                ELSE up.docs[slug]
    IN  /\ th \notin DOMAIN inflight
        /\ docs' = [up.docs EXCEPT ![slug] = made]
        /\ inflight' = Put(inflight, th,
                           IF saved.raised
                           THEN [pc |-> "failed", kind |-> "edit", slug |-> slug, payload |-> Absent]
                           ELSE [pc |-> "loaded", kind |-> "edit", slug |-> slug,
                                 payload |-> saved.docs[slug].doc])
        /\ UNCHANGED <<legacy, trash, now, last, nops>>

\* new_doc up to its existence check: Path(md_path_new).exists() answers the
\* conflict, or the request goes on to create the document
NewCheck(th, f) ==
    LET slug == Slugify(f.title)
    IN  /\ th \notin DOMAIN inflight
        /\ inflight' = Put(inflight, th,
                           [pc |-> IF NewPathExists(docs, slug) THEN "conflict" ELSE "checked",
                            kind |-> "new", slug |-> slug, form |-> f, payload |-> Absent])
        /\ UNCHANGED <<docs, legacy, trash, now, last, nops>>

\* new_doc after the check, up to the open of doc.md: the icon upload, then
\* save_doc makes the directory, loads what is stored and serializes the post
NewSave(th) ==
    /\ th \in DOMAIN inflight
    /\ inflight[th].pc = "checked"
    /\ LET f == inflight[th].form
           slug == inflight[th].slug
           up == IconUpload(docs, now, slug, f.icon)
           saved == SaveDoc(up.docs, legacy, now, f.title, f.body, f.user, slug, None, Some(""), Some(<< >>), None, None, Some(f.access_level))
           made == IF up.docs[slug].kind = "absent" THEN Dir(Absent, {}, EmptyMap, now)
                   ELSE up.docs[slug]
       IN  /\ docs' = [up.docs EXCEPT ![slug] = made]
           /\ inflight' = [inflight EXCEPT ![th] =
                              IF saved.raised
                              THEN [@ EXCEPT !.pc = "failed"]
                              ELSE [@ EXCEPT !.pc = "loaded", !.payload = saved.docs[slug].doc]]
    /\ UNCHANGED <<legacy, trash, now, last, nops>>

\* save_doc: open(md_path_new, "w") truncates doc.md, or creates it
SaveOpen(th) ==
    /\ th \in DOMAIN inflight
    /\ inflight[th].pc = "loaded"
    /\ LET slug == inflight[th].slug
       IN  docs' = [docs EXCEPT ![slug] =
                       [@ EXCEPT !.doc = EmptyFile(now),
                                 !.mtime = IF docs[slug].doc.kind = "absent" THEN now ELSE @]]
    /\ inflight' = [inflight EXCEPT ![th].pc = "opened"]
    /\ UNCHANGED <<legacy, trash, now, last, nops>>

\* save_doc: f.write(content) and the end of the with block
SaveWrite(th) ==
    /\ th \in DOMAIN inflight
    /\ inflight[th].pc = "opened"
    /\ LET slug == inflight[th].slug
       IN  docs' = [docs EXCEPT ![slug] =
                       [@ EXCEPT !.doc = Overlay(docs[slug].doc, inflight[th].payload, now)]]
    /\ inflight' = [inflight EXCEPT ![th].pc = "done"]
    /\ UNCHANGED <<legacy, trash, now, last, nops>>

\* view_doc served between the steps of the threads
ReadNow(slug) ==
    LET r == ReadDoc(docs, legacy, now, slug)
    IN  /\ docs' = r.docs
        /\ last' = [op |-> "read", slug |-> slug, ret |-> r.ret]
        /\ UNCHANGED <<legacy, trash, now, nops, inflight>>

NextThreads ==
    \/ \E th \in Threads, f \in Forms : SaveLoad(th, SlugA, f)
    \/ \E th \in Threads, f \in Forms : NewCheck(th, f)
    \/ \E th \in Threads : NewSave(th)
    \/ \E th \in Threads : SaveOpen(th)
    \/ \E th \in Threads : SaveWrite(th)
    \/ ReadNow(SlugA)

SpecThreads == InitThreads /\ [][NextThreads]_vars

----------------------------------------------------------------------------
\* storage.py: list_docs(query = "", tags = want_tags)

\* The tag filters asked of list_docs; the empty one filters nothing
TagFilters == {{}, {"guide"}, {"API"}}

\* str.lower() of a tag
LowerTag(t) == IF t = "API" THEN "api" ELSE IF t = "Guide" THEN "guide" ELSE t

\* list_docs: want_tags, the tags asked for, in lower case
WantTags(tags) == {LowerTag(t) : t \in tags}

\* The tag filter without the lower case of the tags of the post
TagsMatchAsWritten(ptags, want_tags) ==
    want_tags = {} \/ {ptags[i] : i \in 1..Len(ptags)} \cap want_tags # {}

\* list_docs: the tag filter, an intersection with the tags of the post in
\* lower case
TagsMatch(ptags, want_tags) ==
    want_tags = {} \/ {LowerTag(ptags[i]) : i \in 1..Len(ptags)} \cap want_tags # {}

\* sorted(os.listdir(DOCS_DIR))
SlugOrder == <<SlugA, SlugAB>>

\* _safe_frontmatter_load whose minimal post keeps the raw text as description
SafeFrontmatterLoadRaw(f, dirname) ==
    IF f.ok THEN Load(f)
    ELSE Post([title |-> dirname, description |-> f.body, tags |-> << >>, icon_url |-> ""], "")

\* _safe_frontmatter_load: the post, or the minimal post built when parsing
\* fails (the raw text of a broken file of the model offers no title line)
SafeFrontmatterLoad(f, dirname) ==
    IF f.ok THEN Load(f)
    ELSE Post([title |-> dirname, description |-> "", tags |-> << >>, icon_url |-> ""], "")

\* The summary list_docs builds of a canonical document
CanonicalSummary(slug, post) ==
    [slug |-> slug,
     title |-> Get(post.meta, "title", slug),
     description |-> IF Get(post.meta, "description", "") # ""
                     THEN post.meta["description"] ELSE post.content,
     category |-> Get(post.meta, "category", ""),
     tags |-> Get(post.meta, "tags", << >>),
     layout |-> "canonical",
     body |-> post.content]

\* The summary list_docs builds of a legacy document
LegacySummary(slug, post) ==
    [slug |-> slug,
     title |-> Get(post.meta, "title", slug),
     description |-> Get(post.meta, "description", ""),
     category |-> Get(post.meta, "category", ""),
     tags |-> Get(post.meta, "tags", << >>),
     layout |-> "legacy",
     body |-> ""]

RECURSIVE CanonicalPass(_, _, _)
CanonicalPass(d, order, want_tags) ==
    IF order = << >> THEN << >>
    ELSE LET slug == Head(order)
             item == CanonicalSummary(slug, SafeFrontmatterLoad(d[slug].doc, slug))
         IN  (IF NewPathExists(d, slug) /\ TagsMatch(item.tags, want_tags)
              THEN <<item>>
              ELSE << >>) \o CanonicalPass(d, Tail(order), want_tags)

RECURSIVE LegacyPass(_, _, _, _)
LegacyPass(l, order, results, want_tags) ==
    IF order = << >> THEN results
    ELSE LET slug == Head(order)
             shadowed == \E i \in 1..Len(results) : results[i].slug = slug
             item == LegacySummary(slug, SafeFrontmatterLoad(l[slug], <<"docs">>))
         IN  LegacyPass(l, Tail(order),
                 IF LegacyPathExists(l, slug) /\ ~shadowed /\ TagsMatch(item.tags, want_tags)
                 THEN Append(results, item)
                 ELSE results,
                 want_tags)

ListDocs(d, l, tags) ==
    LegacyPass(l, SlugOrder, CanonicalPass(d, SlugOrder, WantTags(tags)), WantTags(tags))

\* app.py: docs, the listing shown to a user of level nivel
VisibleTo(nivel, category) ==
    IF nivel = "n1" THEN category \in {"", "d1"}
    ELSE IF nivel = "n2" THEN category \in {"", "d1", "d2"}
    ELSE TRUE

DocsView(d, l, nivel) == SelectSeq(ListDocs(d, l, {}), LAMBDA i : VisibleTo(nivel, i.category))

\* The slugs a listing shows
SlugsOf(items) == {items[i].slug : i \in 1..Len(items)}

----------------------------------------------------------------------------
\* Properties

\* What read_doc(slug) answers in the current store
Read(slug) == ReadDoc(docs, legacy, now, slug).ret

\* The step taken serves a request op (the clock steps serve none)
Served(op) == nops' = nops + 1 /\ last'.op = op

\* The step taken is a write (new_doc or edit_doc) that saved the document of slug
Wrote(slug) ==
    /\ nops' = nops + 1
    /\ last'.op \in {"new_doc", "edit_doc"}
    /\ last'.slug = slug
    /\ last'.outcome \in {"created", "updated"}

\* An active document occupies slug: its directory, its doc.md or its legacy file
Occupied(slug) == docs[slug].kind # "absent" \/ legacy[slug].kind = "file"

\* C1: a document whose access tier was set to d2 or d3 by the request that
\* created or last edited it is in no listing shown to an n1 user, and one set
\* to d3 is in no listing shown to an n2 user.
C1_TierHidesDocument ==
    (last.op \in {"new_doc", "edit_doc"} /\ last.outcome \in {"created", "updated"}) =>
        /\ last.tier \in {"d2", "d3"} => last.slug \notin SlugsOf(DocsView(docs, legacy, "n1"))
        /\ last.tier = "d3" => last.slug \notin SlugsOf(DocsView(docs, legacy, "n2"))

\* C2: delete(s) of a canonical document followed by the restore of the trash
\* entry that delete produced, s being unoccupied, puts the document back:
\* doc.md exists at docs/s, read(s) answers what it answered before the delete,
\* and the trash entry is gone.
C2_DeleteRestoreRoundTrip ==
    [][(/\ last.op = "delete" /\ last.ret /\ last.canonical
        /\ ~Occupied(last.slug)
        /\ Served("restore") /\ last'.name = last.name[1])
       => /\ NewPathExists(docs', last.slug)
          /\ ReadDoc(docs', legacy', now', last.slug).ret = last.before
          /\ last.name[1] \notin DOMAIN trash']_vars

\* C3: a sweep with max_age_days >= 1 run less than a day after delete(slug)
\* does not remove the trash entry that delete just created.
C3_SweepKeepsFreshDeletion ==
    [][(/\ last.op = "delete" /\ last.ret
        /\ Served("sweep") /\ last'.days >= 1
        /\ AgeDays(now, last.at) < 1)
       => last.name[1] \in DOMAIN trash']_vars

\* C4: a restore of a trash entry whose base slug is occupied by an active
\* document answers conflict and changes nothing in docs/ and trash/.
C4_RestoreConflictLeavesAll ==
    [][\A name \in DOMAIN trash :
          (Served("restore") /\ last'.name = name /\ Occupied(BaseName(name)))
          => /\ last'.outcome = "conflict"
             /\ docs' = docs /\ legacy' = legacy /\ trash' = trash]_vars

C4_Witness ==
    /\ last.op = "restore" /\ last.outcome = "conflict"
    /\ LegacyPathExists(legacy, last.base[1])
    /\ ~DirPathExists(docs, last.base[1])
    /\ last.name \in DOMAIN trash

\* C5: new_doc answers conflict and changes nothing whenever a document with
\* the slug of its title exists, in canonical or in legacy layout.
C5_CreateConflict ==
    [][\A slug \in Slugs :
          (/\ Served("new_doc") /\ last'.slug = slug
           /\ (NewPathExists(docs, slug) \/ LegacyPathExists(legacy, slug)))
          => /\ last'.outcome = "conflict"
             /\ docs' = docs /\ legacy' = legacy]_vars

\* The metadata a write to slug loads: canonical if present, else legacy
LoadedMeta(slug) ==
    IF NewPathExists(docs, slug) THEN docs[slug].doc.meta
    ELSE IF LegacyPathExists(legacy, slug) THEN legacy[slug].meta
    ELSE EmptyMap

\* C6: a write keeps created_at and created_by as loaded (or sets them to the
\* time and actor of the write when the loaded metadata has none), and sets
\* last_edited_at and last_edited_by to the time and actor of the write.
C6_CreationKeptEditRefreshed ==
    [][\A slug \in Slugs :
          Wrote(slug) =>
            LET before == LoadedMeta(slug)
                after == docs'[slug].doc.meta
            IN  /\ after["last_edited_at"] = FormatBRT(now)
                /\ after["last_edited_by"] = last'.user
                /\ after["created_at"] = Get(before, "created_at", FormatBRT(now))
                /\ after["created_by"] = Get(before, "created_by", last'.user)]_vars

C6_Witness ==
    /\ last.op = "edit_doc" /\ last.outcome = "updated"
    /\ LET meta == docs[last.slug].doc.meta
       IN  /\ meta["created_by"] = "ana" /\ meta["last_edited_by"] = "bob"
           /\ meta["created_at"] # meta["last_edited_at"]

\* C7: after the restore of a trash entry <slug>_<timestamp>.md (a legacy file
\* that was soft-deleted), the document is at its canonical location:
\* read(slug) answers it and the listing includes it.
C7_LegacyRestoreReadable ==
    (/\ last.op = "restore" /\ last.outcome = "restored"
     /\ last.name[Len(last.name)] = ".md")
    => /\ NewPathExists(docs, last.base[1])
       /\ Read(last.base[1]) # None
       /\ last.base[1] \in SlugsOf(ListDocs(docs, legacy, {}))

\* C8: every delete that answers true adds one top-level trash entry under a
\* name the trash did not hold, and leaves every other entry as it was.
C8_DeleteAddsFreshEntry ==
    [][(Served("delete") /\ last'.ret)
       => /\ last'.name[1] \notin DOMAIN trash
          /\ DOMAIN trash' = (DOMAIN trash) \cup {last'.name[1]}
          /\ \A name \in DOMAIN trash : trash'[name] = trash[name]]_vars

\* The write to slug found only a legacy file
MigratingWrite(slug) ==
    Wrote(slug) /\ LegacyPathExists(legacy, slug) /\ ~NewPathExists(docs, slug)

\* C9 (as stated): after a write to a slug that had only a legacy file, the
\* canonical file and the legacy file do not both exist.
C9_NotBothAfterMigration ==
    [][\A slug \in Slugs :
          MigratingWrite(slug)
          => ~(NewPathExists(docs', slug) /\ LegacyPathExists(legacy', slug))]_vars

\* C9 (amended): after a write to a slug that had only a legacy file, the
\* canonical file exists and holds the document written, and the legacy file
\* is still there, unchanged.
C9_MigrationKeepsLegacy ==
    [][\A slug \in Slugs :
          MigratingWrite(slug)
          => /\ NewPathExists(docs', slug)
             /\ docs'[slug].doc.ok
             /\ docs'[slug].doc.body = last'.body
             /\ docs'[slug].doc.meta["title"] = last'.title
             /\ legacy'[slug] = legacy[slug]]_vars

C9_Witness ==
    /\ last.op \in {"new_doc", "edit_doc"} /\ last.outcome \in {"created", "updated"}
    /\ NewPathExists(docs, last.slug) /\ LegacyPathExists(legacy, last.slug)
    /\ docs[last.slug].doc.body # legacy[last.slug].body
    /\ docs[last.slug].doc.meta["created_at"] = legacy[last.slug].meta["created_at"]

\* C10: when a canonical file exists, read(slug) answers what that file holds
\* or not-found, and leaves the canonical file as it is.
C10_CanonicalOnlySource ==
    [][\A slug \in Slugs :
          (Served("read") /\ last'.slug = slug /\ NewPathExists(docs, slug))
          => /\ docs'[slug].doc = docs[slug].doc
             /\ \/ last'.ret = None
                \/ docs[slug].doc.ok /\ last'.ret = Some(Load(docs[slug].doc))]_vars

\* C11: a read of a slug that has only a legacy file leaves docs/<slug>/doc.md
\* as a copy of the legacy file, leaves the legacy file as it is, and answers
\* what the legacy file parses to; a second read answers the same and changes
\* nothing in the store.
C11_ReadMigrationIdempotent ==
    [][\A slug \in Slugs :
          (/\ Served("read") /\ last'.slug = slug
           /\ LegacyPathExists(legacy, slug) /\ ~NewPathExists(docs, slug))
          => /\ NewPathExists(docs', slug)
             /\ docs'[slug].doc = legacy[slug]
             /\ legacy' = legacy /\ trash' = trash
             /\ last'.ret = (IF legacy[slug].ok THEN Some(Load(legacy[slug])) ELSE None)
             /\ LET again == ReadDoc(docs', legacy', now', slug)
                IN  again.ret = last'.ret /\ again.docs = docs']_vars

C11_Witness ==
    /\ last.op = "read" /\ last.ret # None
    /\ LegacyPathExists(legacy, last.slug)
    /\ NewPathExists(docs, last.slug)
    /\ docs[last.slug].doc = legacy[last.slug]
    /\ docs[last.slug].mtime = now
    /\ last.ret[1].content = "# legacy"

\* C12: for every tag filter, list_docs emits no slug twice, and the summary of
\* a slug that has both a canonical and a legacy file is the one built from
\* the canonical file.
C12_ListOncePreferCanonical ==
    \A want_tags \in TagFilters :
        LET results == ListDocs(docs, legacy, want_tags)
        IN  /\ \A i, j \in 1..Len(results) : results[i].slug = results[j].slug => i = j
            /\ \A i \in 1..Len(results) :
                   (/\ NewPathExists(docs, results[i].slug)
                    /\ LegacyPathExists(legacy, results[i].slug))
                   => results[i].layout = "canonical"

\* C13: a sweep removes every trash entry whose age in whole days, counted
\* from its modification time, is max_age_days or more (and whose removal the
\* file system does not refuse), and keeps every younger entry as it is.
C13_SweepByAge ==
    [][Served("sweep") =>
         \A name \in DOMAIN trash :
            /\ (AgeDays(now, trash[name].mtime) >= last'.days /\ name \notin last'.failed)
               => name \notin DOMAIN trash'
            /\ AgeDays(now, trash[name].mtime) < last'.days
               => (name \in DOMAIN trash' /\ trash'[name] = trash[name])]_vars

C13_Witness ==
    /\ last.op = "sweep" /\ last.days = DefaultRetentionDays /\ last.failed = {}
    /\ \E name \in DOMAIN last.before :
          /\ AgeDays(now, last.before[name].mtime) = 8
          /\ name \notin DOMAIN trash
    /\ \E name \in DOMAIN trash : AgeDays(now, trash[name].mtime) = 6

\* C18: a sweep in which removals fail still removes every other entry of the
\* age, answers the names it removed and no other, and leaves the entries it
\* did not remove as they were.
C18_SweepPastFailures ==
    [][Served("sweep") =>
         LET due == Expired(trash, now, last'.days)
         IN  /\ last'.removed = due \ last'.failed
             /\ DOMAIN trash' = (DOMAIN trash) \ last'.removed
             /\ last'.failed \cap DOMAIN trash' = last'.failed
             /\ \A name \in DOMAIN trash' : trash'[name] = trash[name]]_vars

C18_Witness ==
    /\ last.op = "sweep" /\ last.failed # {} /\ last.removed # {}
    /\ last.failed \subseteq DOMAIN trash
    /\ last.removed \cap DOMAIN trash = {}

\* C19: a sweep changes nothing under docs/: the canonical directories, their
\* assets and the legacy files are after it what they were before it.
C19_SweepLeavesDocs ==
    [][Served("sweep") => (docs' = docs /\ legacy' = legacy)]_vars

C19_Witness ==
    /\ last.op = "sweep" /\ last.removed # {}
    /\ \E name \in last.removed : Occupied(BaseName(name))

\* C14: delete(slug) answers true exactly when a unit existed. The canonical
\* directory, if there is one, becomes the trash entry <slug>_<timestamp> as
\* it was, and nothing remains at docs/<slug>; else the legacy file, if there
\* is one, becomes the entry <slug>_<timestamp>.md; else delete answers false
\* and changes nothing.
C14_DeleteMovesUnit ==
    [][\A slug \in Slugs :
          (Served("delete") /\ last'.slug = slug) =>
             IF IsDir(docs[slug])
             THEN /\ last'.ret /\ ~last'.raised
                  /\ docs'[slug] = Absent
                  /\ TrashName(slug, now) \in DOMAIN trash'
                  /\ trash'[TrashName(slug, now)] = docs[slug]
             ELSE IF LegacyPathExists(legacy, slug)
             THEN /\ last'.ret /\ ~last'.raised
                  /\ legacy'[slug] = Absent
                  /\ TrashNameMd(slug, now) \in DOMAIN trash'
                  /\ trash'[TrashNameMd(slug, now)] = legacy[slug]
             ELSE /\ ~last'.ret
                  /\ docs' = docs /\ legacy' = legacy /\ trash' = trash]_vars

\* C15: an edit of an existing slug saves, whatever the stored file holds:
\* edit_doc answers updated, and read(slug) then answers the title and the
\* body of the form.
C15_EditAlwaysSaves ==
    [][\A slug \in Slugs :
          (/\ Served("edit_doc") /\ last'.slug = slug
           /\ (NewPathExists(docs, slug) \/ LegacyPathExists(legacy, slug)))
          => LET r == ReadDoc(docs', legacy', now', slug).ret
             IN  /\ last'.outcome = "updated"
                 /\ r # None
                 /\ r[1].meta["title"] = last'.title
                 /\ r[1].content = last'.body]_vars

\* C16: read(slug) answers not-found when the file it finds of the slug (the
\* canonical one, else the legacy one) does not parse, and when the slug has
\* neither file.
C16_ReadParseFailureNotFound ==
    [][\A slug \in Slugs :
          (/\ Served("read") /\ last'.slug = slug
           /\ \/ NewPathExists(docs, slug) /\ ~docs[slug].doc.ok
              \/ ~NewPathExists(docs, slug) /\ LegacyPathExists(legacy, slug)
                    /\ ~legacy[slug].ok
              \/ ~NewPathExists(docs, slug) /\ ~LegacyPathExists(legacy, slug))
          => last'.ret = None]_vars

Payloads == {inflight[th].payload : th \in {x \in DOMAIN inflight : inflight[x].pc \in {"loaded", "opened", "done"}}}

\* The document the store held before any of the threads wrote
Previous == InitDocsEntry(SlugA, "canonical", [day |-> 0, sec |-> 0]).doc

\* C20: a read served while documents are being written answers the whole
\* previous document or the whole document of one writer (or not-found, when
\* there was none), and once every writer is done doc.md holds the whole
\* document of one of them: never an empty, cut or mixed one.
C20_NeverHalfWritten ==
    /\ (last.op = "read" /\ last.ret # None)
       => last.ret[1] \in {Load(f) : f \in Payloads \cup {Previous}}
    /\ (DOMAIN inflight = Threads /\ \A th \in Threads : inflight[th].pc = "done")
       => Load(docs[SlugA].doc) \in {Load(f) : f \in Payloads}

\* C21: a purge of a name that trash/ holds removes that entry and nothing
\* else (unless the removal is refused, and then nothing changes); a purge of
\* a name that trash/ does not hold answers not-found and changes nothing.
C21_PurgeOnlyNamedEntry ==
    [][Served("purge") =>
         /\ docs' = docs /\ legacy' = legacy
         /\ IF last'.name \in DOMAIN trash
            THEN \/ last'.outcome = "purged" /\ trash' = Drop(trash, last'.name)
                 \/ last'.outcome = "error" /\ trash' = trash
            ELSE last'.outcome = "not_found" /\ trash' = trash]_vars

\* The tags ts of a document meet the tags asked for, both in lower case
Meets(ts, tags) ==
    tags = {} \/ \E k \in 1..Len(ts), t \in tags : LowerTag(ts[k]) = LowerTag(t)

C23_BrokenStaysListed ==
    LET results == ListDocs(docs, legacy, {})
    IN  \A slug \in Slugs :
            NewPathExists(docs, slug) =>
               /\ Cardinality({i \in 1..Len(results) : results[i].slug = slug}) = 1
               /\ ~docs[slug].doc.ok =>
                     \A i \in 1..Len(results) :
                        results[i].slug = slug =>
                           /\ results[i].layout = "canonical"
                           /\ results[i].description = ""
                           /\ results[i].tags = << >>

C23_Witness ==
    /\ last.op = "edit_doc" /\ last.outcome = "error"
    /\ NewPathExists(docs, last.slug) /\ ~docs[last.slug].doc.ok
    /\ \E i \in 1..Len(ListDocs(docs, legacy, {})) :
          /\ ListDocs(docs, legacy, {})[i].slug = last.slug
          /\ ListDocs(docs, legacy, {})[i].title = last.slug
          /\ ListDocs(docs, legacy, {})[i].description = ""

\* The step taken is a save_doc call that wrote the document of slug
Saved(slug) ==
    \/ Wrote(slug)
    \/ Served("write") /\ last'.slug = slug /\ ~last'.raised

\* The metadata keys the save_doc call of the step was given values for,
\* beside the title and the last-edited fields it always sets
Passed ==
    IF last'.op = "write" THEN {}
    ELSE IF last'.op = "edit_doc" THEN {"description", "tags", "category", "icon_url"}
    ELSE {"description", "tags", "access_level"}

\* The stored keys the call of the step is to leave alone
Untouched(slug) ==
    (DOMAIN LoadedMeta(slug)) \ (Passed \cup {"title", "last_edited_at", "last_edited_by"})

\* C24 (as stated): after a save_doc call, every stored metadata field the
\* call was not given (tags, icon_url, cover_url, description, access level)
\* has the value it had.
C24_UnpassedFieldsKept ==
    [][\A slug \in Slugs :
          Saved(slug) =>
             \A k \in Untouched(slug) : docs'[slug].doc.meta[k] = LoadedMeta(slug)[k]]_vars

\* C24 (amended): after a save_doc call, every stored metadata field the call
\* was not given has the value it had, but for a stored description that is
\* empty, which becomes the start of the body written.
C24_UnpassedKeptButEmptyDescription ==
    [][\A slug \in Slugs :
          Saved(slug) =>
             \A k \in Untouched(slug) :
                docs'[slug].doc.meta[k] =
                   IF k = "description" /\ LoadedMeta(slug)[k] = ""
                   THEN AutoDescription(last'.body)
                   ELSE LoadedMeta(slug)[k]]_vars

C24_Witness ==
    /\ last.op = "write" /\ ~last.raised /\ last.user = "bob"
    /\ NewPathExists(docs, last.slug)
    /\ LET meta == docs[last.slug].doc.meta
       IN  /\ meta["tags"] = <<"api">> /\ meta["description"] = "about"
           /\ meta["access_level"] = "d1" /\ meta["created_by"] = "ana"
           /\ meta["last_edited_by"] = "bob" /\ meta["title"] = last.title
    /\ docs[last.slug].doc.body = last.body

\* C25: a document created by a save_doc call that names no access tier is
\* stored with the tier d1, and after new_doc or edit_doc with the tier X of
\* the form, read(slug) answers a document whose access tier is X.
C25_TierReadBack ==
    [][\A slug \in Slugs :
          LET r == ReadDoc(docs', legacy', now', slug).ret
          IN  /\ (/\ Served("write") /\ last'.slug = slug /\ ~last'.raised
                  /\ ~NewPathExists(docs, slug) /\ ~LegacyPathExists(legacy, slug))
                 => (r # None /\ r[1].meta["access_level"] = "d1")
              /\ Wrote(slug)
                 => (r # None /\ r[1].meta["access_level"] = last'.tier)]_vars

\* C26: after delete(slug) answers true, read(slug) answers not-found and the
\* listing does not hold the slug.
C26_DeletedIsInactive ==
    [][\A slug \in Slugs :
          (Served("delete") /\ last'.slug = slug /\ last'.ret)
          => /\ ReadDoc(docs', legacy', now', slug).ret = None
             /\ slug \notin SlugsOf(ListDocs(docs', legacy', {}))]_vars

\* The slug delete_doc made the trash name of: the name without its timestamp
TrashedSlug(name) ==
    SubSeq(name, 1, Len(name) - (IF name[Len(name)] = ".md" THEN 5 ELSE 4))

\* The document a top-level trash entry holds, None when it parses to none
EntryPost(e) ==
    IF IsDir(e)
    THEN IF e.doc.kind = "file" /\ e.doc.ok THEN Some(Load(e.doc)) ELSE None
    ELSE IF e.ok THEN Some(Load(e)) ELSE None

\* C27: no step but a purge or a sweep loses a document: a document read(slug)
\* answers is, after the step, still answered by read(slug) or held by a
\* top-level trash entry of that slug; and a document a top-level trash entry
\* holds is still held by that entry or is the one read of its slug answers.
C27_OnlyPurgeAndSweepDestroy ==
    [][(nops' = nops + 1 /\ last'.op \notin {"purge", "sweep"}) =>
         /\ \A slug \in Slugs :
                Read(slug) # None =>
                   \/ ReadDoc(docs', legacy', now', slug).ret # None
                   \/ \E name \in DOMAIN trash' :
                         /\ TrashedSlug(name) = slug
                         /\ EntryPost(trash'[name]) = Read(slug)
         /\ \A name \in DOMAIN trash :
                EntryPost(trash[name]) # None =>
                   \/ name \in DOMAIN trash' /\ EntryPost(trash'[name]) = EntryPost(trash[name])
                   \/ ReadDoc(docs', legacy', now', TrashedSlug(name)).ret
                         = EntryPost(trash[name])]_vars

\* C28: every directory directly under docs/ holds a doc.md.
C28_EveryDirHoldsDoc ==
    \A slug \in DocNames : IsDir(docs[slug]) => docs[slug].doc.kind = "file"

\* The create requests in flight, and those that reported the document created
Creating == {th \in DOMAIN inflight : inflight[th].kind = "new"}
Created == {th \in Creating : inflight[th].pc = "done"}

\* C29: of two create requests of one title served at the same time, at most
\* one reports the document created, the other reports the conflict, and
\* doc.md then holds the document of the one that created it.
C29_OneCreateWins ==
    (/\ Creating = Threads
     /\ \A th \in Threads : inflight[th].pc \in {"done", "conflict", "failed"}
     /\ \A t1, t2 \in Threads : inflight[t1].form.title = inflight[t2].form.title)
    => /\ Cardinality(Created) <= 1
       /\ Created # {} => \A th \in Threads \ Created : inflight[th].pc = "conflict"
       /\ \A th \in Created : Load(docs[inflight[th].slug].doc) = Load(inflight[th].payload)

====
